---- MODULE Spec2Model ----
(***************************************************************************)
(* Model of the autoconfiguration engine (lib/autoconfig.js) and of its    *)
(* caller configureRules (lib/config/config-initializer.js).               *)
(*                                                                         *)
(* Four specifications share the module:                                   *)
(*   SpecSchema   - generateConfigsFromSchema, one step per schema option  *)
(*   Spec         - configureRules: collect files, build the registry,     *)
(*                  lint every (file, ruleSet) pair, select and merge      *)
(*   SpecRegistry - any sequence of Registry methods on a registry and on  *)
(*                  the registries derived from it                         *)
(*   SpecExtend   - extendFromRecommended on a selected configuration      *)
(***************************************************************************)
EXTENDS Integers, Sequences, FiniteSets, TLC

VARIABLES
    \* ---- generateConfigsFromSchema ----
    schema,         \* the rule's schema: [isArray, opts]
    optIdx,         \* position of schema.forEach (1-based)
    ruleConfigs,    \* configSet.ruleConfigs
    objectConfigs,  \* objectConfigSet.objectConfigs of the last addObject call
    gpc,            \* control point of generateConfigsFromSchema
    \* ---- configureRules / Registry ----
    pc,             \* control point of configureRules
    coreSchemas,    \* rules.get(id).schema of every core rule
    fileQty,        \* Object.keys(sourceCodes).length
    rulesConfig,    \* rule id -> candidate configs, as given to makeRegistryItems
    errorCount,     \* rule id -> errorCount of every registryItem (shared objects)
    registryRules,  \* registry.rules: rule id -> references to registryItems
    lintedRules,    \* lintedRegistry.rules inside lintSourceCode
    ruleSets,       \* the ruleSets built by buildRuleSets
    fileIdx,        \* position of filenames.forEach (1-based)
    ruleSetIdx,     \* ruleSetIdx of lintSourceCode (0-based, as in the code)
    calls,          \* history: the <<file, ruleSetIdx>> of every eslint.verify call
    returned,       \* history: findings returned per rule id and ruleSet index
    anyFailed,      \* history: some (file, ruleSet) check raised an exception
    budget,         \* findings the evaluator may still return (bounds the counters)
    newConfigRules, \* newConfig.rules as returned by configureRules
    \* ---- Registry methods called in any order ----
    registries,     \* the .rules object of every Registry created so far
    lastOp,         \* history: the last method called, its receiver and result
    \* ---- extendFromRecommended ----
    recConfigRules, \* recConfig.rules
    rulesObjects,   \* the objects that config.rules / newConfig.rules refer to
    configArg,      \* the argument config: [rules: reference, extends]
    newConfig,      \* the returned object: [rules: reference, extends]
    selected,       \* history: the contents of config.rules when called
    epc             \* control point of extendFromRecommended

schemaVars == <<schema, optIdx, ruleConfigs, objectConfigs, gpc>>

registryVars == <<pc, coreSchemas, fileQty, rulesConfig, errorCount, registryRules,
                  lintedRules, ruleSets, fileIdx, ruleSetIdx, calls, returned,
                  anyFailed, budget, newConfigRules>>

opsVars == <<registries, lastOp>>

extendVars == <<recConfigRules, rulesObjects, configArg, newConfig, selected, epc>>

vars == <<schema, optIdx, ruleConfigs, objectConfigs, gpc,
          pc, coreSchemas, fileQty, rulesConfig, errorCount, registryRules,
          lintedRules, ruleSets, fileIdx, ruleSetIdx, calls, returned,
          anyFailed, budget, newConfigRules,
          registries, lastOp,
          recConfigRules, rulesObjects, configArg, newConfig, selected, epc>>

-----------------------------------------------------------------------------
(* Bounds *)

MaxDescriptors == 4     \* longest schema array of the small descriptors
MaxProps == 3           \* most properties of an object descriptor
MaxFiles == 2           \* most source files resolved from the patterns
MaxFindingsPerCall == 2 \* most findings one eslint.verify call returns
MaxTotalFindings == 2   \* most findings returned over one lintSourceCode pass

(* Program constants *)

MAX_CONFIG_COMBINATIONS == 17

-----------------------------------------------------------------------------
(* JavaScript values.  Every value is a record of one shape so that any    *)
(* two values can be compared; t is the typeof/Array.isArray tag.          *)

Null == [t |-> "null", n |-> 0, s |-> "", b |-> FALSE, o |-> <<>>, a |-> <<>>]
Num(n) == [t |-> "num", n |-> n, s |-> "", b |-> FALSE, o |-> <<>>, a |-> <<>>]
Str(s) == [t |-> "str", n |-> 0, s |-> s, b |-> FALSE, o |-> <<>>, a |-> <<>>]
Bool(b) == [t |-> "bool", n |-> 0, s |-> "", b |-> b, o |-> <<>>, a |-> <<>>]
\* an object: its own properties in insertion order, as <<name, value>> pairs
Obj(o) == [t |-> "obj", n |-> 0, s |-> "", b |-> FALSE, o |-> o, a |-> <<>>]
Arr(a) == [t |-> "arr", n |-> 0, s |-> "", b |-> FALSE, o |-> <<>>, a |-> a]

\* typeof v === "object" (arrays and null are objects)
IsObjectType(v) == v.t \in {"obj", "arr", "null"}

\* the property/value pairs of an object, order forgotten (structural equality)
Pairs(v) == {v.o[i] : i \in DOMAIN v.o}

Range(f) == {f[i] : i \in DOMAIN f}

\* config.length || 1, the specificity makeRegistryItems gives a config
Specificity(config) ==
    IF config.t = "arr" /\ Len(config.a) > 0 THEN Len(config.a) ELSE 1

-----------------------------------------------------------------------------
(* Array helpers *)

explodeArray(xs) == [i \in 1..Len(xs) |-> Arr(<<xs[i]>>)]

\* [].concat(x1, x2): array arguments are spread one level, others appended
ConcatArg(x) == IF x.t = "arr" THEN x.a ELSE <<x>>

combineArrays(arr1, arr2) ==
    IF Len(arr1) = 0 THEN explodeArray(arr2)
    ELSE IF Len(arr2) = 0 THEN explodeArray(arr1)
    ELSE [k \in 1..(Len(arr1) * Len(arr2)) |->
            Arr(ConcatArg(arr1[((k - 1) \div Len(arr2)) + 1])
                \o ConcatArg(arr2[((k - 1) % Len(arr2)) + 1]))]

-----------------------------------------------------------------------------
(* Object option helpers *)

\* obj[p] = v on an object's property list
SetProp(o, p, v) ==
    IF \E i \in DOMAIN o : o[i][1] = p
    THEN [i \in DOMAIN o |-> IF o[i][1] = p THEN <<p, v>> ELSE o[i]]
    ELSE Append(o, <<p, v>>)

RECURSIVE AssignAll(_, _, _)
\* copies the properties src[i..] onto dst, in order
AssignAll(dst, src, i) ==
    IF i > Len(src) THEN dst
    ELSE AssignAll(SetProp(dst, src[i][1], src[i][2]), src, i + 1)

RECURSIVE DistinctInOrder(_, _, _)
DistinctInOrder(xs, i, acc) ==
    IF i > Len(xs) THEN acc
    ELSE DistinctInOrder(xs, i + 1,
            IF xs[i] \in Range(acc) THEN acc ELSE Append(acc, xs[i]))

\* Object.keys(obj)[0]
FirstKey(obj) == obj.o[1][1]

groupByProperty(objects) ==
    LET props == DistinctInOrder([i \in 1..Len(objects) |-> FirstKey(objects[i])], 1, <<>>)
    IN  [g \in 1..Len(props) |->
            SelectSeq(objects, LAMBDA ob : FirstKey(ob) = props[g])]

\* combinePropertyObjects that forgets to copy the properties of obj1
combinePropertyObjects_dropFirst(objArr1, objArr2) ==
    IF Len(objArr1) = 0 THEN objArr2
    ELSE IF Len(objArr2) = 0 THEN objArr1
    ELSE [k \in 1..(Len(objArr1) * Len(objArr2)) |->
            LET obj2 == objArr2[((k - 1) % Len(objArr2)) + 1]
            IN  Obj(AssignAll(<<>>, obj2.o, 1))]

combinePropertyObjects(objArr1, objArr2) ==
    IF Len(objArr1) = 0 THEN objArr2
    ELSE IF Len(objArr2) = 0 THEN objArr1
    ELSE [k \in 1..(Len(objArr1) * Len(objArr2)) |->
            LET obj1 == objArr1[((k - 1) \div Len(objArr2)) + 1]
                obj2 == objArr2[((k - 1) % Len(objArr2)) + 1]
            IN  Obj(AssignAll(AssignAll(<<>>, obj1.o, 1), obj2.o, 1))]

\* objectConfigSet.add(property, values)
ObjectConfigSetAdd(configs, property, values) ==
    configs \o [i \in 1..Len(values) |-> Obj(<<<<property, values[i]>>>>)]

RECURSIVE AddProperties(_, _, _)
\* the Object.keys(obj.properties).forEach of addObject, from property i on
AddProperties(configs, props, i) ==
    IF i > Len(props) THEN configs
    ELSE LET p == props[i]
             c1 == IF p.hasEnum THEN ObjectConfigSetAdd(configs, p.name, p.enum)
                   ELSE configs
             c2 == IF p.type = "boolean"
                   THEN ObjectConfigSetAdd(c1, p.name, <<Bool(TRUE), Bool(FALSE)>>)
                   ELSE c1
         IN  AddProperties(c2, props, i + 1)

RECURSIVE ReduceCombine(_, _, _)
ReduceCombine(acc, groups, i) ==
    IF i > Len(groups) THEN acc
    ELSE ReduceCombine(combinePropertyObjects(acc, groups[i]), groups, i + 1)

\* objectConfigSet.combine()
ObjectConfigSetCombine(configs) == ReduceCombine(<<>>, groupByProperty(configs), 1)

\* objectConfigSet.objectConfigs at the end of addObject
ObjectConfigsOf(obj) == ObjectConfigSetCombine(AddProperties(<<>>, obj.properties, 1))

-----------------------------------------------------------------------------
(* RuleConfigSet *)

addEnums(configs, enums) == configs \o combineArrays(configs, enums)

addObject(configs, obj) == configs \o combineArrays(configs, ObjectConfigsOf(obj))

RECURSIVE Unshifted(_, _)
\* config.unshift(severity) as seen through every reference to the array:
\* an array nested in a config is one of the arrays of ruleConfigs (put
\* there by explodeArray(arr1)), and each of those is unshifted once.
Unshifted(config, severity) ==
    Arr(<<Num(severity)>> \o
        [i \in 1..Len(config.a) |->
            IF config.a[i].t = "arr" THEN Unshifted(config.a[i], severity)
            ELSE config.a[i]])

\* addErrorSeverity that forgets the final this.ruleConfigs.unshift(severity)
addErrorSeverity_noBare(configs) ==
    [i \in 1..Len(configs) |-> Unshifted(configs[i], 2)]

addErrorSeverity(configs) ==
    <<Num(2)>> \o [i \in 1..Len(configs) |-> Unshifted(configs[i], 2)]

-----------------------------------------------------------------------------
(* generateConfigsFromSchema *)

\* Object.keys(opt.properties) throws when the descriptor has no properties
OptThrows(opt) == opt.type = "object" /\ ~opt.hasProps

\* one iteration of schema.forEach
VisitOpt(configs, opt) ==
    LET c1 == IF opt.hasEnum THEN addEnums(configs, opt.enum) ELSE configs
    IN  IF opt.type = "object" THEN addObject(c1, opt) ELSE c1

RECURSIVE VisitAll(_, _, _)
VisitAll(configs, opts, i) ==
    IF i > Len(opts) THEN configs
    ELSE VisitAll(VisitOpt(configs, opts[i]), opts, i + 1)

generateConfigsFromSchema(sch) ==
    addErrorSeverity(IF sch.isArray THEN VisitAll(<<>>, sch.opts, 1) ELSE <<>>)

-----------------------------------------------------------------------------
(* Schemas given to generateConfigsFromSchema *)

EnumOpt(values) ==
    [hasEnum |-> TRUE, enum |-> values, type |-> "", hasProps |-> FALSE,
     properties |-> <<>>, oneOf |-> FALSE]
ObjectOpt(props) ==
    [hasEnum |-> FALSE, enum |-> <<>>, type |-> "object", hasProps |-> TRUE,
     properties |-> props, oneOf |-> FALSE]
\* {type: "object", additionalProperties: ...}: an object option without properties
BareObjectOpt ==
    [hasEnum |-> FALSE, enum |-> <<>>, type |-> "object", hasProps |-> FALSE,
     properties |-> <<>>, oneOf |-> FALSE]
OneOfOpt ==
    [hasEnum |-> FALSE, enum |-> <<>>, type |-> "", hasProps |-> FALSE,
     properties |-> <<>>, oneOf |-> TRUE]

BoolProp(name) == [name |-> name, hasEnum |-> FALSE, enum |-> <<>>, type |-> "boolean"]
EnumProp(name, values) == [name |-> name, hasEnum |-> TRUE, enum |-> values, type |-> ""]
OtherProp(name) == [name |-> name, hasEnum |-> FALSE, enum |-> <<>>, type |-> "integer"]

SmallDescriptors ==
    { EnumOpt(<<Str("always"), Str("never")>>),
      EnumOpt(<<Str("single")>>),
      EnumOpt(<<>>),
      ObjectOpt(<<BoolProp("before")>>),
      ObjectOpt(<<OtherProp("max")>>),
      OneOfOpt,
      BareObjectOpt }

PropPool ==
    << BoolProp("before"),
       EnumProp("after", <<Str("x"), Str("y")>>),
       EnumProp("mode", <<Str("m1"), Str("m2"), Str("m3")>>),
       BoolProp("allowNull"),
       OtherProp("max") >>

RECURSIVE PickProps(_, _)
\* the properties of PropPool with index in S, in pool order, from index i on
PickProps(S, i) ==
    IF i > Len(PropPool) THEN <<>>
    ELSE (IF i \in S THEN <<PropPool[i]>> ELSE <<>>) \o PickProps(S, i + 1)

ObjectDescriptors ==
    { ObjectOpt(PickProps(S, 1)) :
        S \in {T \in SUBSET (1..Len(PropPool)) : Cardinality(T) <= MaxProps} }

SchemaInputs ==
    { [isArray |-> FALSE, opts |-> <<>>] }
    \cup { [isArray |-> TRUE, opts |-> s] :
            s \in UNION {[1..n -> SmallDescriptors] : n \in 0..MaxDescriptors} }
    \cup { [isArray |-> TRUE, opts |-> <<d>>] : d \in ObjectDescriptors }
    \cup { [isArray |-> TRUE, opts |-> <<EnumOpt(<<Str("always"), Str("never")>>), d>>] :
            d \in ObjectDescriptors }

-----------------------------------------------------------------------------
(* generateConfigsFromSchema, one step per iteration of schema.forEach *)

GenHasNext == schema.isArray /\ optIdx <= Len(schema.opts)

GenVisit ==
    /\ gpc = "loop"
    /\ GenHasNext
    /\ ~OptThrows(schema.opts[optIdx])
    /\ ruleConfigs' = VisitOpt(ruleConfigs, schema.opts[optIdx])
    /\ objectConfigs' = IF schema.opts[optIdx].type = "object"
                        THEN ObjectConfigsOf(schema.opts[optIdx])
                        ELSE objectConfigs
    /\ optIdx' = optIdx + 1
    /\ UNCHANGED <<schema, gpc>>
    /\ UNCHANGED <<registryVars, opsVars, extendVars>>

GenThrow ==
    /\ gpc = "loop"
    /\ GenHasNext
    /\ OptThrows(schema.opts[optIdx])
    /\ gpc' = "threw"
    /\ UNCHANGED <<schema, optIdx, ruleConfigs, objectConfigs>>
    /\ UNCHANGED <<registryVars, opsVars, extendVars>>

GenSeverity ==
    /\ gpc = "loop"
    /\ ~GenHasNext
    /\ ruleConfigs' = addErrorSeverity(ruleConfigs)
    /\ gpc' = "done"
    /\ UNCHANGED <<schema, optIdx, objectConfigs>>
    /\ UNCHANGED <<registryVars, opsVars, extendVars>>

SchemaIdle ==
    /\ schema = [isArray |-> FALSE, opts |-> <<>>]
    /\ optIdx = 1
    /\ ruleConfigs = <<>>
    /\ objectConfigs = <<>>
    /\ gpc = "idle"

RegistryIdle ==
    /\ pc = "idle"
    /\ coreSchemas = <<>>
    /\ fileQty = 0
    /\ rulesConfig = <<>>
    /\ errorCount = <<>>
    /\ registryRules = <<>>
    /\ lintedRules = <<>>
    /\ ruleSets = <<>>
    /\ fileIdx = 1
    /\ ruleSetIdx = 0
    /\ calls = <<>>
    /\ returned = <<>>
    /\ anyFailed = FALSE
    /\ budget = 0
    /\ newConfigRules = <<>>

\* no method has been called
NoOp == [op |-> "", recv |-> 0, result |-> 0]

OpsIdle ==
    /\ registries = <<>>
    /\ lastOp = NoOp

\* the value of a property that is not there
Absent == ""

ExtendIdle ==
    /\ recConfigRules = <<>>
    /\ rulesObjects = <<>>
    /\ configArg = [rules |-> 0, extends |-> Absent]
    /\ newConfig = [rules |-> 0, extends |-> Absent]
    /\ selected = <<>>
    /\ epc = "idle"

InitSchema ==
    /\ schema \in SchemaInputs
    /\ optIdx = 1
    /\ ruleConfigs = <<>>
    /\ objectConfigs = <<>>
    /\ gpc = "loop"
    /\ RegistryIdle
    /\ OpsIdle
    /\ ExtendIdle

NextSchema == GenVisit \/ GenThrow \/ GenSeverity

SpecSchema == InitSchema /\ [][NextSchema]_vars

-----------------------------------------------------------------------------
(* Registry.  A registryItem is an object shared by every registry that    *)
(* holds it: registries map a rule id to a list of item references, item i *)
(* of rule r has config rulesConfig[r][i] and errorCount errorCount[r][i]. *)

Undefined == -1     \* errorCount: void 0
NaN == -2           \* undefined + 1

\* errorCount += 1
Incremented(count) == IF count \in {Undefined, NaN} THEN NaN ELSE count + 1

makeRegistryItems(rc) == [r \in DOMAIN rc |-> [i \in 1..Len(rc[r]) |-> i]]

\* the errorCount: void 0 of the items makeRegistryItems creates
FreshErrorCounts(rc) == [r \in DOMAIN rc |-> [i \in 1..Len(rc[r]) |-> Undefined]]

createConfigsForCoreRules(schemas) ==
    [r \in DOMAIN schemas |-> generateConfigsFromSchema(schemas[r])]

ItemConfig(r, item) == rulesConfig[r][item]
ItemSpecificity(r, item) == Specificity(ItemConfig(r, item))

\* typeof config[1] === "object"
OptionIsObject(config) ==
    config.t = "arr" /\ Len(config.a) >= 2 /\ IsObjectType(config.a[2])

\* addRuleToRuleSet puts rule into ruleSets[idx] (idx counts from 0)
addRuleToRuleSet(rules, rule, idx) ==
    LET hasFewCombos == Len(rules[rule]) <= MAX_CONFIG_COMBINATIONS
    IN  /\ idx < Len(rules[rule])
        /\ (hasFewCombos \/ ItemSpecificity(rule, rules[rule][idx + 1]) <= 2)
        /\ ~(~hasFewCombos /\ OptionIsObject(ItemConfig(rule, rules[rule][idx + 1])))

RECURSIVE BuildLoop_firstItem(_, _, _)
\* the buildRuleSets loop taking this.rules[rule][0] whatever idx is
BuildLoop_firstItem(rules, idx, sets) ==
    LET placed == {r \in DOMAIN rules : addRuleToRuleSet(rules, r, idx)}
    IN  IF placed = {} THEN sets
        ELSE BuildLoop_firstItem(rules, idx + 1, Append(sets, [r \in placed |-> rules[r][1]]))

RECURSIVE BuildLoop(_, _, _)
\* while (ruleSets.length === idx) { ruleIds.forEach(addRuleToRuleSet); idx += 1; }
BuildLoop(rules, idx, sets) ==
    LET placed == {r \in DOMAIN rules : addRuleToRuleSet(rules, r, idx)}
    IN  IF placed = {} THEN sets
        ELSE BuildLoop(rules, idx + 1, Append(sets, [r \in placed |-> rules[r][idx + 1]]))

\* the ruleSets returned by buildRuleSets: each maps rule id -> item reference
buildRuleSets(rules) == BuildLoop(rules, 0, <<>>)

\* buildRuleSets zeroing every item up to the number of ruleSets, placed or not
ErrorCountsAfterBuild_upToLength(sets, counts) ==
    [r \in DOMAIN counts |-> [i \in DOMAIN counts[r] |->
        IF i <= Len(sets) THEN 0 ELSE counts[r][i]]]

\* the side effect of buildRuleSets: errorCount = 0 on every item it placed
ErrorCountsAfterBuild(sets, counts) ==
    [r \in DOMAIN counts |-> [i \in DOMAIN counts[r] |->
        IF \E k \in DOMAIN sets : r \in DOMAIN sets[k] /\ sets[k][r] = i
        THEN 0 ELSE counts[r][i]]]

\* stripFailingConfigs without the delete of a rule left with no item
stripFailingConfigs_keepEmpty(rules, counts) ==
    [r \in DOMAIN rules |-> SelectSeq(rules[r], LAMBDA item : counts[r][item] = 0)]

stripFailingConfigs(rules, counts) ==
    LET errorFreeItems(r) == SelectSeq(rules[r], LAMBDA item : counts[r][item] = 0)
    IN  [r \in {q \in DOMAIN rules : Len(errorFreeItems(q)) > 0} |-> errorFreeItems(r)]

stripExtraConfigs(rules, counts) ==
    [r \in DOMAIN rules |-> SelectSeq(rules[r], LAMBDA item : counts[r][item] # Undefined)]

filterBySpecificity(rules, specificity) ==
    [r \in DOMAIN rules |->
        SelectSeq(rules[r], LAMBDA item : ItemSpecificity(r, item) = specificity)]

\* createConfig().rules
createConfig(rules) ==
    [r \in {q \in DOMAIN rules : Len(rules[q]) = 1} |-> ItemConfig(r, rules[r][1])]

\* called by configureRules but defined nowhere in the sources: the mapping
\* of rules with exactly one configuration (what createConfig emits)
getRulesWithOneConfig(rules) == createConfig(rules)

\* called by configureRules but defined nowhere in the sources: the mapping
\* emitted for the registry filtered to one specificity
getRulesWithSpecificity(rules, specificity) ==
    createConfig(filterBySpecificity(rules, specificity))

\* assign({}, a, b): b wins on key collision
Assign(a, b) ==
    [r \in (DOMAIN a) \cup (DOMAIN b) |-> IF r \in DOMAIN b THEN b[r] ELSE a[r]]

-----------------------------------------------------------------------------
(* lintSourceCode helpers *)

FatalRuleId == "null"   \* the ruleId of a parse-error message

RECURSIVE RecordResults(_, _, _, _, _)
\* lintResults.forEach(result => rules[result.ruleId][idx].errorCount += 1),
\* stopped by the first TypeError (no such rule, or no item at idx)
RecordResults(rules, idx, counts, results, i) ==
    IF i > Len(results) THEN [counts |-> counts, threw |-> FALSE]
    ELSE IF results[i] \notin DOMAIN rules \/ idx >= Len(rules[results[i]])
    THEN [counts |-> counts, threw |-> TRUE]
    ELSE LET r == results[i]
             item == rules[r][idx + 1]
         IN  RecordResults(rules, idx,
                [counts EXCEPT ![r][item] = Incremented(counts[r][item])],
                results, i + 1)

\* ruleSetIdx += 1 placed inside the try block: skipped when the check fails
NextRuleSetIdx_insideTry(idx, threw) == IF threw THEN idx ELSE idx + 1

\* ruleSetIdx += 1, after the try/catch
NextRuleSetIdx(idx, threw) == idx + 1

\* history of findings: one more for (rule of results[i], round idx), each i
RECURSIVE Tally(_, _, _, _)
Tally(tally, idx, results, i) ==
    IF i > Len(results) THEN tally
    ELSE Tally(IF results[i] \in DOMAIN tally
               THEN [tally EXCEPT ![results[i]][idx + 1] = @ + 1]
               ELSE tally,
               idx, results, i + 1)

-----------------------------------------------------------------------------
(* The core rules and what the evaluator may return *)

RuleIds == {"quotes", "semi"}

NoSchema == [isArray |-> FALSE, opts |-> <<>>]
QuotesSchema == [isArray |-> TRUE, opts |-> <<EnumOpt(<<Str("always"), Str("never")>>)>>]
TwoOptionSchema ==
    [isArray |-> TRUE,
     opts |-> <<EnumOpt(<<Str("a"), Str("b")>>), EnumOpt(<<Str("x")>>)>>]
\* one enum with more values than MAX_CONFIG_COMBINATIONS
LongEnumSchema ==
    [isArray |-> TRUE,
     opts |-> <<EnumOpt([i \in 1..(MAX_CONFIG_COMBINATIONS + 1) |-> Str(ToString(i))])>>]
\* an enum holding null, then an object option: 21 candidates
NullEnumSchema ==
    [isArray |-> TRUE,
     opts |-> <<EnumOpt(<<Str("a"), Null, Str("b"), Str("c")>>),
                ObjectOpt(<<BoolProp("p"), BoolProp("q")>>)>>]

SmallSchemas == {NoSchema, QuotesSchema, TwoOptionSchema}

CoreRuleChoices ==
    { [r \in RuleIds |-> IF r = "quotes" THEN a ELSE b] :
        a \in SmallSchemas, b \in SmallSchemas }
    \cup { [r \in RuleIds |-> IF r = "quotes" THEN NullEnumSchema ELSE b] :
            b \in {NoSchema, TwoOptionSchema} }
    \cup { [r \in RuleIds |-> IF r = "quotes" THEN LongEnumSchema ELSE NoSchema] }

FindingIds == RuleIds \cup {FatalRuleId}

Min(a, b) == IF a < b THEN a ELSE b

\* the lists of findings (each a ruleId) one eslint.verify call may return
ResultChoices(left) ==
    UNION {[1..n -> FindingIds] : n \in 0..Min(MaxFindingsPerCall, left)}

-----------------------------------------------------------------------------
(* configureRules *)

\* getSourceCodeOfFiles: the patterns resolve to any number of source files
GetSourceCodeOfFiles ==
    /\ pc = "collect"
    /\ \E n \in 0..MaxFiles : fileQty' = n
    /\ pc' = "checkFiles"
    /\ UNCHANGED <<coreSchemas, rulesConfig, errorCount, registryRules, lintedRules,
                   ruleSets, fileIdx, ruleSetIdx, calls, returned, anyFailed, budget,
                   newConfigRules>>
    /\ UNCHANGED <<schemaVars, opsVars, extendVars>>

\* fileQty === 0 and the call inquirerUi.complete() raises
NoFilesCompleteThrows ==
    /\ pc = "checkFiles"
    /\ fileQty = 0
    /\ pc' = "aborted"
    /\ UNCHANGED <<coreSchemas, fileQty, rulesConfig, errorCount, registryRules,
                   lintedRules, ruleSets, fileIdx, ruleSetIdx, calls, returned,
                   anyFailed, budget, newConfigRules>>
    /\ UNCHANGED <<schemaVars, opsVars, extendVars>>

\* fileQty === 0 and inquirerUi.complete() returns: the if block ends and
\* configureRules goes on with the next statement
NoFilesCompleteReturns ==
    /\ pc = "checkFiles"
    /\ fileQty = 0
    /\ pc' = "populate"
    /\ UNCHANGED <<coreSchemas, fileQty, rulesConfig, errorCount, registryRules,
                   lintedRules, ruleSets, fileIdx, ruleSetIdx, calls, returned,
                   anyFailed, budget, newConfigRules>>
    /\ UNCHANGED <<schemaVars, opsVars, extendVars>>

FilesResolved ==
    /\ pc = "checkFiles"
    /\ fileQty > 0
    /\ pc' = "populate"
    /\ UNCHANGED <<coreSchemas, fileQty, rulesConfig, errorCount, registryRules,
                   lintedRules, ruleSets, fileIdx, ruleSetIdx, calls, returned,
                   anyFailed, budget, newConfigRules>>
    /\ UNCHANGED <<schemaVars, opsVars, extendVars>>

\* registry = new Registry(); registry.populateFromCoreRules()
PopulateFromCoreRules ==
    /\ pc = "populate"
    /\ rulesConfig' = createConfigsForCoreRules(coreSchemas)
    /\ registryRules' = makeRegistryItems(rulesConfig')
    /\ errorCount' = FreshErrorCounts(rulesConfig')
    /\ pc' = "lintStart"
    /\ UNCHANGED <<coreSchemas, fileQty, lintedRules, ruleSets, fileIdx, ruleSetIdx,
                   calls, returned, anyFailed, budget, newConfigRules>>
    /\ UNCHANGED <<schemaVars, opsVars, extendVars>>

\* lintSourceCode up to filenames.forEach: copy the rules, buildRuleSets,
\* stripExtraConfigs
LintStart ==
    /\ pc = "lintStart"
    /\ ruleSets' = buildRuleSets(registryRules)
    /\ errorCount' = ErrorCountsAfterBuild(ruleSets', errorCount)
    /\ lintedRules' = stripExtraConfigs(registryRules, errorCount')
    /\ returned' = [r \in DOMAIN registryRules |-> [k \in 1..Len(ruleSets') |-> 0]]
    /\ fileIdx' = 1
    /\ ruleSetIdx' = 0
    /\ pc' = "lint"
    /\ UNCHANGED <<coreSchemas, fileQty, rulesConfig, registryRules, calls, anyFailed,
                   budget, newConfigRules>>
    /\ UNCHANGED <<schemaVars, opsVars, extendVars>>

InRuleSetLoop == pc = "lint" /\ fileIdx <= fileQty /\ ruleSetIdx < Len(ruleSets)

\* one iteration of ruleSets.forEach in which eslint.verify returns
VerifyReturns ==
    /\ InRuleSetLoop
    /\ \E results \in ResultChoices(budget) :
        LET rec == RecordResults(lintedRules, ruleSetIdx, errorCount, results, 1)
        IN  /\ errorCount' = rec.counts
            /\ anyFailed' = (anyFailed \/ rec.threw)
            /\ returned' = Tally(returned, ruleSetIdx, results, 1)
            /\ budget' = budget - Len(results)
            /\ ruleSetIdx' = NextRuleSetIdx(ruleSetIdx, rec.threw)
    /\ calls' = Append(calls, <<fileIdx, ruleSetIdx>>)
    /\ UNCHANGED <<pc, coreSchemas, fileQty, rulesConfig, registryRules, lintedRules,
                   ruleSets, fileIdx, newConfigRules>>
    /\ UNCHANGED <<schemaVars, opsVars, extendVars>>

\* one iteration of ruleSets.forEach in which eslint.verify throws
VerifyThrows ==
    /\ InRuleSetLoop
    /\ anyFailed' = TRUE
    /\ ruleSetIdx' = NextRuleSetIdx(ruleSetIdx, TRUE)
    /\ calls' = Append(calls, <<fileIdx, ruleSetIdx>>)
    /\ UNCHANGED <<pc, coreSchemas, fileQty, rulesConfig, errorCount, registryRules,
                   lintedRules, ruleSets, fileIdx, returned, budget, newConfigRules>>
    /\ UNCHANGED <<schemaVars, opsVars, extendVars>>

\* the end of one iteration of filenames.forEach; the next one starts with
\* ruleSetIdx = 0
NextFile ==
    /\ pc = "lint"
    /\ fileIdx <= fileQty
    /\ ruleSetIdx >= Len(ruleSets)
    /\ fileIdx' = fileIdx + 1
    /\ ruleSetIdx' = IF fileIdx + 1 <= fileQty THEN 0 ELSE ruleSetIdx
    /\ UNCHANGED <<pc, coreSchemas, fileQty, rulesConfig, errorCount, registryRules,
                   lintedRules, ruleSets, calls, returned, anyFailed, budget,
                   newConfigRules>>
    /\ UNCHANGED <<schemaVars, opsVars, extendVars>>

\* return lintedRegistry; registry = registry.lintSourceCode(...)
LintReturn ==
    /\ pc = "lint"
    /\ fileIdx > fileQty
    /\ registryRules' = lintedRules
    /\ pc' = "select"
    /\ UNCHANGED <<coreSchemas, fileQty, rulesConfig, errorCount, lintedRules, ruleSets,
                   fileIdx, ruleSetIdx, calls, returned, anyFailed, budget,
                   newConfigRules>>
    /\ UNCHANGED <<schemaVars, opsVars, extendVars>>

\* the registry the selection reads: the value of registry.stripFailingConfigs()
\* is dropped, and the call leaves the receiver as it was
RegistryAfterStripCall(rules, counts) == rules

\* the rest of configureRules: disabledConfigs, the stripFailingConfigs call,
\* the four selections and the merge
SelectAndMerge ==
    /\ pc = "select"
    /\ LET disabledConfigs == [r \in DOMAIN registryRules |-> Num(0)]
           rules == RegistryAfterStripCall(registryRules, errorCount)
           singleConfigs == getRulesWithOneConfig(rules)
           specTwoConfigs == getRulesWithSpecificity(rules, 2)
           specThreeConfigs == getRulesWithSpecificity(rules, 3)
           defaultConfigs == getRulesWithSpecificity(rules, 1)
       IN  newConfigRules' =
               Assign(Assign(Assign(Assign(disabledConfigs, defaultConfigs),
                                    specThreeConfigs), specTwoConfigs), singleConfigs)
    /\ pc' = "done"
    /\ UNCHANGED <<coreSchemas, fileQty, rulesConfig, errorCount, registryRules,
                   lintedRules, ruleSets, fileIdx, ruleSetIdx, calls, returned,
                   anyFailed, budget>>
    /\ UNCHANGED <<schemaVars, opsVars, extendVars>>

Init ==
    /\ pc = "collect"
    /\ coreSchemas \in CoreRuleChoices
    /\ fileQty = 0
    /\ rulesConfig = <<>>
    /\ errorCount = <<>>
    /\ registryRules = <<>>
    /\ lintedRules = <<>>
    /\ ruleSets = <<>>
    /\ fileIdx = 1
    /\ ruleSetIdx = 0
    /\ calls = <<>>
    /\ returned = <<>>
    /\ anyFailed = FALSE
    /\ budget = MaxTotalFindings
    /\ newConfigRules = <<>>
    /\ SchemaIdle
    /\ OpsIdle
    /\ ExtendIdle

Next ==
    \/ GetSourceCodeOfFiles
    \/ NoFilesCompleteThrows
    \/ NoFilesCompleteReturns
    \/ FilesResolved
    \/ PopulateFromCoreRules
    \/ LintStart
    \/ VerifyReturns
    \/ VerifyThrows
    \/ NextFile
    \/ LintReturn
    \/ SelectAndMerge

Spec == Init /\ [][Next]_vars

-----------------------------------------------------------------------------
(* Properties of generateConfigsFromSchema (checked under SpecSchema) *)

SpecificityAscending ==
    gpc = "done" =>
        \A i, j \in 1..Len(ruleConfigs) :
            i < j => Specificity(ruleConfigs[i]) <= Specificity(ruleConfigs[j])

\* the descriptors generateConfigsFromSchema acts on
Recognized(opt) == opt.hasEnum \/ opt.type = "object"

PropertyPermits(p, v) ==
    \/ p.hasEnum /\ v \in Range(p.enum)
    \/ p.type = "boolean" /\ v.t = "bool"

\* v is a value the descriptor d allows for its option
Permits(d, v) ==
    \/ d.hasEnum /\ v \in Range(d.enum)
    \/ /\ d.type = "object"
       /\ v.t = "obj"
       /\ \A pair \in Pairs(v) :
            \E p \in Range(d.properties) : p.name = pair[1] /\ PropertyPermits(p, pair[2])

\* C8: every returned tuple [2, v1, ..., vn] is valid position by position:
\* n is at most the number of recognized descriptors and vi is a value of
\* the i-th recognized descriptor.
CandidatesPositionallyValid ==
    gpc = "done" =>
        LET ds == SelectSeq(schema.opts, Recognized)
        IN  \A c \in 2..Len(ruleConfigs) :
                /\ Len(ruleConfigs[c].a) - 1 <= Len(ds)
                /\ \A i \in 1..(Len(ruleConfigs[c].a) - 1) :
                    i <= Len(ds) => Permits(ds[i], ruleConfigs[c].a[i + 1])

\* the option visited by the last GenVisit step
LastOpt == schema.opts[optIdx - 1]

\* a property that is an enum (with values) or a boolean
EnumOrBoolean(p) ==
    \/ p.hasEnum /\ Len(p.enum) >= 1 /\ p.type # "boolean"
    \/ ~p.hasEnum /\ p.type = "boolean"

PropertyValues(p) == IF p.type = "boolean" THEN {Bool(TRUE), Bool(FALSE)} ELSE Range(p.enum)

RECURSIVE ValueCountProduct(_, _)
ValueCountProduct(props, i) ==
    IF i > Len(props) THEN 1
    ELSE Cardinality(PropertyValues(props[i])) * ValueCountProduct(props, i + 1)

\* an option object as a function from property name to value
ObjectAsFunction(v) ==
    [name \in {pair[1] : pair \in Pairs(v)} |->
        (CHOOSE pair \in Pairs(v) : pair[1] = name)[2]]

\* every simultaneous assignment of one permitted value to each property
AllCombinations(props) ==
    LET names == {props[i].name : i \in 1..Len(props)}
        values == UNION {PropertyValues(props[i]) : i \in 1..Len(props)}
    IN  {f \in [names -> values] :
            \A i \in 1..Len(props) : f[props[i].name] \in PropertyValues(props[i])}

AddObjectCase ==
    /\ schema.isArray
    /\ optIdx > 1
    /\ LastOpt.type = "object"
    /\ LastOpt.hasProps
    /\ Len(LastOpt.properties) >= 1
    /\ \A i \in 1..Len(LastOpt.properties) : EnumOrBoolean(LastOpt.properties[i])

\* C9: for an object descriptor whose k properties are each an enum or a
\* boolean, addObject builds exactly the product of the value counts option
\* objects, all distinct, each assigning one value to every property, and
\* together they are every combination.
ObjectConfigsAreProduct ==
    AddObjectCase =>
        /\ Len(objectConfigs) = ValueCountProduct(LastOpt.properties, 1)
        /\ \A i, j \in 1..Len(objectConfigs) :
            i # j => Pairs(objectConfigs[i]) # Pairs(objectConfigs[j])
        /\ \A i \in 1..Len(objectConfigs) :
            Len(objectConfigs[i].o) = Len(LastOpt.properties)
        /\ {ObjectAsFunction(objectConfigs[i]) : i \in 1..Len(objectConfigs)}
            = AllCombinations(LastOpt.properties)

\* a boolean, a two-valued enum and a three-valued enum combined into 12 objects
ObjectConfigsAreProduct_Witness ==
    /\ AddObjectCase
    /\ Len(LastOpt.properties) = 3
    /\ Len(objectConfigs) = 12

-----------------------------------------------------------------------------
(* Properties of configureRules and the Registry (checked under Spec) *)

\* the registry after elimination: stripFailingConfigs of the linted registry
Survivors == stripFailingConfigs(registryRules, errorCount)

\* C1: in the configuration configureRules returns, every rule that is not
\* off is set to one of its candidates whose errorCount after the pass is 0.
SelectedConfigsHaveNoFindings ==
    pc = "done" =>
        \A r \in DOMAIN newConfigRules :
            newConfigRules[r] # Num(0) =>
                \E i \in 1..Len(rulesConfig[r]) :
                    /\ rulesConfig[r][i] = newConfigRules[r]
                    /\ errorCount[r][i] = 0

\* C2: a rule with survivors at specificity 1, 2 and 3 is set to a surviving
\* specificity-2 candidate, and a rule with a single survivor is set to it.
SpecificityTwoPreferred ==
    pc = "done" =>
        \A r \in DOMAIN Survivors :
            /\ {1, 2, 3} \subseteq {ItemSpecificity(r, item) : item \in Range(Survivors[r])}
                => \E item \in Range(Survivors[r]) :
                        /\ ItemSpecificity(r, item) = 2
                        /\ newConfigRules[r] = ItemConfig(r, item)
            /\ Len(Survivors[r]) = 1
                => newConfigRules[r] = ItemConfig(r, Survivors[r][1])

\* C3: when no source file is resolved, configureRules stops before the
\* registry is built: nothing is populated, built, evaluated or returned.
NoFilesStopsBeforeRegistry ==
    (pc # "collect" /\ fileQty = 0) =>
        /\ rulesConfig = <<>>
        /\ registryRules = <<>>
        /\ ruleSets = <<>>
        /\ calls = <<>>
        /\ pc # "done"

\* the (file, ruleSetIdx) pairs of F files and R ruleSets, file-major
FileMajor(F, R) == [n \in 1..(F * R) |-> <<((n - 1) \div R) + 1, (n - 1) % R>>]

\* the iterations of ruleSets.forEach completed so far
ChecksCompleted ==
    IF fileIdx > fileQty THEN fileQty * Len(ruleSets)
    ELSE (fileIdx - 1) * Len(ruleSets) + ruleSetIdx

\* C4: eslint.verify is called once per (file, ruleSet) pair, in file-major
\* order, with ruleSetIdx one more after every call, failed or not; when
\* lintSourceCode returns every pair has been checked.
EveryPairCheckedInOrder ==
    pc \in {"lint", "select", "done"} =>
        /\ ChecksCompleted <= fileQty * Len(ruleSets)
        /\ calls = SubSeq(FileMajor(fileQty, Len(ruleSets)), 1, ChecksCompleted)
        /\ pc # "lint" => Len(calls) = fileQty * Len(ruleSets)

\* a finished pass over two files and three or more ruleSets with a failed check
EveryPairCheckedInOrder_Witness ==
    /\ pc = "done"
    /\ anyFailed
    /\ fileQty = 2
    /\ Len(ruleSets) >= 3
    /\ Len(calls) = 2 * Len(ruleSets)

\* C5: after a pass without a failed check, the errorCount of the candidate
\* placed into round k is the number of findings returned for its rule
\* under round k, and the candidates placed nowhere are untouched.
CountersMatchFindings ==
    (pc \in {"select", "done"} /\ ~anyFailed) =>
        \A r \in DOMAIN errorCount :
            \A i \in 1..Len(errorCount[r]) :
                LET rounds == {k \in 1..Len(ruleSets) :
                                r \in DOMAIN ruleSets[k] /\ ruleSets[k][r] = i}
                IN  /\ \A k \in rounds : errorCount[r][i] = returned[r][k]
                    /\ rounds = {} => errorCount[r][i] = Undefined

\* C10: buildRuleSets returns at most MAX_CONFIG_COMBINATIONS ruleSets
RuleSetsBounded == Len(ruleSets) <= MAX_CONFIG_COMBINATIONS

\* item i of rule r was put into one of the ruleSets
Placed(r, i) == \E k \in 1..Len(ruleSets) : r \in DOMAIN ruleSets[k] /\ ruleSets[k][r] = i

\* the length of the longest candidate list
LongestList ==
    IF DOMAIN rulesConfig = {} THEN 0
    ELSE CHOOSE n \in {Len(rulesConfig[r]) : r \in DOMAIN rulesConfig} :
            \A r \in DOMAIN rulesConfig : Len(rulesConfig[r]) <= n

\* C11: every entry of ruleSet k is the k-th candidate of its rule; when no
\* rule has more than MAX_CONFIG_COMBINATIONS candidates, ruleSet k holds
\* exactly the rules with a k-th candidate and there are as many ruleSets as
\* the longest candidate list has entries.
RuleSetsDrawnFromRegistry ==
    pc \in {"lint", "select", "done"} =>
        /\ \A k \in 1..Len(ruleSets) : \A r \in DOMAIN ruleSets[k] :
            /\ k <= Len(rulesConfig[r])
            /\ ruleSets[k][r] = k
            /\ ItemConfig(r, ruleSets[k][r]) = rulesConfig[r][k]
        /\ (\A r \in DOMAIN rulesConfig : Len(rulesConfig[r]) <= MAX_CONFIG_COMBINATIONS)
            => /\ \A k \in 1..Len(ruleSets) :
                    DOMAIN ruleSets[k] = {r \in DOMAIN rulesConfig : Len(rulesConfig[r]) >= k}
               /\ Len(ruleSets) = LongestList

\* ruleSets of two rules with lists of different lengths, the longer one of five
RuleSetsDrawnFromRegistry_Witness ==
    /\ pc = "lint"
    /\ Len(ruleSets) = 5
    /\ DOMAIN ruleSets[1] = RuleIds
    /\ DOMAIN ruleSets[4] # RuleIds
    /\ \A r \in DOMAIN rulesConfig : Len(rulesConfig[r]) <= MAX_CONFIG_COMBINATIONS

\* lintSourceCode has run buildRuleSets and stripExtraConfigs and no check yet
AfterBuildRuleSets == pc = "lint" /\ calls = <<>>

\* C12: after buildRuleSets on a registry with undefined counters, an item's
\* errorCount is 0 exactly when it was placed into a ruleSet, the others stay
\* undefined, and stripExtraConfigs keeps exactly the placed items, in order.
ZeroIffPlaced ==
    AfterBuildRuleSets =>
        \A r \in DOMAIN rulesConfig :
            /\ \A i \in 1..Len(rulesConfig[r]) :
                /\ errorCount[r][i] = 0 <=> Placed(r, i)
                /\ ~Placed(r, i) => errorCount[r][i] = Undefined
            /\ lintedRules[r] = SelectSeq([i \in 1..Len(rulesConfig[r]) |-> i],
                                          LAMBDA i : Placed(r, i))

\* a rule with an unplaced candidate before a placed one and others behind
ZeroIffPlaced_Witness ==
    /\ AfterBuildRuleSets
    /\ \E r \in DOMAIN rulesConfig : \E i, j \in 1..Len(rulesConfig[r]) :
        /\ i < j
        /\ ~Placed(r, i)
        /\ Placed(r, j)
        /\ Len(lintedRules[r]) < Len(rulesConfig[r]) - 1

\* C16: a (file, ruleSet) check that fails, because eslint.verify throws or
\* because recording one of its findings raises, changes no errorCount.
\* Stated for the first failing check of a run, which any check can be.
FailedCheckCountsNothing ==
    [][(~anyFailed /\ anyFailed') => errorCount' = errorCount]_vars

\* the descriptor is an enum without values, or an object none of whose
\* properties is an enum or a boolean
YieldsNoValues(opt) ==
    \/ opt.hasEnum /\ opt.enum = <<>> /\ opt.type # "object"
    \/ ~opt.hasEnum /\ opt.type = "object" /\ opt.hasProps /\ ObjectConfigsOf(opt) = <<>>

\* the sequence without its p-th element
RemoveAt(seq, p) == [i \in 1..(Len(seq) - 1) |-> IF i < p THEN seq[i] ELSE seq[i + 1]]

\* C18: a descriptor that yields no option values adds no candidates: the
\* returned list is the one returned for the schema without that descriptor,
\* wherever the descriptor stands.
EmptyDescriptorAddsNothing ==
    gpc = "done" =>
        \A p \in 1..Len(schema.opts) :
            YieldsNoValues(schema.opts[p]) =>
                ruleConfigs =
                    generateConfigsFromSchema([schema EXCEPT !.opts = RemoveAt(@, p)])

-----------------------------------------------------------------------------
(* Registry methods in any order, on a registry and on those derived from  *)
(* it.  registries[i] is the .rules object of the i-th Registry created;   *)
(* the registryItems (and so errorCount) are shared by all of them.        *)

MaxRegistries == 3      \* most Registry instances created in one run
MaxOpsFiles == 1        \* most source files given to one lintSourceCode call
MaxOpsFindings == 1     \* most findings returned over all lintSourceCode calls

\* newRegistry.rules written back into the receiver's own rules object
AllocRules_alias(objs, recv, newRules) ==
    [objs |-> [objs EXCEPT ![recv] = newRules], result |-> recv]

\* newRegistry = new Registry(); newRegistry.rules = assign({}, this.rules);
\* the lists stored into the copy are fresh arrays made by filter
AllocRules(objs, recv, newRules) ==
    [objs |-> Append(objs, newRules), result |-> Len(objs) + 1]

RegistryCoreChoices ==
    { [r \in RuleIds |-> IF r = "quotes" THEN QuotesSchema ELSE NoSchema],
      [r \in RuleIds |-> IF r = "quotes" THEN NullEnumSchema ELSE NoSchema] }

CanAlloc == pc = "ops" /\ Len(registries) < MaxRegistries

RegBuildRuleSets ==
    /\ pc = "ops"
    /\ \E i \in 1..Len(registries) :
        /\ errorCount' = ErrorCountsAfterBuild(buildRuleSets(registries[i]), errorCount)
        /\ lastOp' = [op |-> "buildRuleSets", recv |-> i, result |-> 0]
    /\ UNCHANGED <<pc, coreSchemas, fileQty, rulesConfig, registryRules, lintedRules,
                   ruleSets, fileIdx, ruleSetIdx, calls, returned, anyFailed, budget,
                   newConfigRules, registries>>
    /\ UNCHANGED <<schemaVars, extendVars>>

RegStripFailingConfigs ==
    /\ CanAlloc
    /\ \E i \in 1..Len(registries) :
        LET new == AllocRules(registries, i, stripFailingConfigs(registries[i], errorCount))
        IN  /\ registries' = new.objs
            /\ lastOp' = [op |-> "stripFailingConfigs", recv |-> i, result |-> new.result]
    /\ UNCHANGED registryVars
    /\ UNCHANGED <<schemaVars, extendVars>>

RegStripExtraConfigs ==
    /\ CanAlloc
    /\ \E i \in 1..Len(registries) :
        LET new == AllocRules(registries, i, stripExtraConfigs(registries[i], errorCount))
        IN  /\ registries' = new.objs
            /\ lastOp' = [op |-> "stripExtraConfigs", recv |-> i, result |-> new.result]
    /\ UNCHANGED registryVars
    /\ UNCHANGED <<schemaVars, extendVars>>

RegFilterBySpecificity ==
    /\ CanAlloc
    /\ \E i \in 1..Len(registries), specificity \in 1..3 :
        LET new == AllocRules(registries, i, filterBySpecificity(registries[i], specificity))
        IN  /\ registries' = new.objs
            /\ lastOp' = [op |-> "filterBySpecificity", recv |-> i, result |-> new.result]
    /\ UNCHANGED registryVars
    /\ UNCHANGED <<schemaVars, extendVars>>

\* registries[i].lintSourceCode(sourceCodes, config) is called
RegLintSourceCode ==
    /\ CanAlloc
    /\ \E i \in 1..Len(registries) :
        /\ registryRules' = registries[i]
        /\ lastOp' = [op |-> "lintSourceCode", recv |-> i, result |-> 0]
    /\ fileQty' \in 1..MaxOpsFiles
    /\ pc' = "lintStart"
    /\ UNCHANGED <<coreSchemas, rulesConfig, errorCount, lintedRules, ruleSets, fileIdx,
                   ruleSetIdx, calls, returned, anyFailed, budget, newConfigRules,
                   registries>>
    /\ UNCHANGED <<schemaVars, extendVars>>

\* return lintedRegistry; the locals of lintSourceCode are gone
RegLintReturn ==
    /\ pc = "lint"
    /\ fileIdx > fileQty
    /\ registries' = Append(registries, lintedRules)
    /\ lastOp' = [lastOp EXCEPT !.result = Len(registries) + 1]
    /\ pc' = "ops"
    /\ fileQty' = 0
    /\ registryRules' = <<>>
    /\ lintedRules' = <<>>
    /\ ruleSets' = <<>>
    /\ fileIdx' = 1
    /\ ruleSetIdx' = 0
    /\ calls' = <<>>
    /\ returned' = <<>>
    /\ anyFailed' = FALSE
    /\ UNCHANGED <<coreSchemas, rulesConfig, errorCount, budget, newConfigRules>>
    /\ UNCHANGED <<schemaVars, extendVars>>

\* registry = new Registry(rulesConfig) for the configs of some core rules
InitRegistry ==
    /\ pc = "ops"
    /\ coreSchemas \in RegistryCoreChoices
    /\ fileQty = 0
    /\ rulesConfig = createConfigsForCoreRules(coreSchemas)
    /\ errorCount = FreshErrorCounts(rulesConfig)
    /\ registryRules = <<>>
    /\ lintedRules = <<>>
    /\ ruleSets = <<>>
    /\ fileIdx = 1
    /\ ruleSetIdx = 0
    /\ calls = <<>>
    /\ returned = <<>>
    /\ anyFailed = FALSE
    /\ budget = MaxOpsFindings
    /\ newConfigRules = <<>>
    /\ registries = <<makeRegistryItems(rulesConfig)>>
    /\ lastOp = NoOp
    /\ SchemaIdle
    /\ ExtendIdle

NextRegistry ==
    \/ RegBuildRuleSets
    \/ RegStripFailingConfigs
    \/ RegStripExtraConfigs
    \/ RegFilterBySpecificity
    \/ RegLintSourceCode
    \/ LintStart
    \/ VerifyReturns
    \/ VerifyThrows
    \/ NextFile
    \/ RegLintReturn

SpecRegistry == InitRegistry /\ [][NextRegistry]_vars

StripOps == {"stripFailingConfigs", "stripExtraConfigs", "filterBySpecificity"}

CountersOf(rules) ==
    UNION {{errorCount[r][rules[r][k]] : k \in 1..Len(rules[r])} : r \in DOMAIN rules}

\* C13: the registry returned by stripFailingConfigs holds, per rule, exactly
\* the receiver's items with errorCount 0 (items with an undefined counter
\* are dropped too), holds no rule with an empty list, and is its own
\* stripFailingConfigs.
StripFailingIdempotent ==
    (pc = "ops" /\ lastOp.op = "stripFailingConfigs") =>
        LET this == registries[lastOp.recv]
            result == registries[lastOp.result]
        IN  /\ DOMAIN result =
                {r \in DOMAIN this : \E k \in 1..Len(this[r]) : errorCount[r][this[r][k]] = 0}
            /\ \A r \in DOMAIN result :
                /\ result[r] = SelectSeq(this[r], LAMBDA item : errorCount[r][item] = 0)
                /\ Len(result[r]) > 0
            /\ stripFailingConfigs(result, errorCount) = result

\* stripFailingConfigs has returned from a registry holding items with an
\* undefined, a zero and a positive counter, and has dropped a rule
StripFailingIdempotent_Witness ==
    /\ pc = "ops"
    /\ lastOp.op = "stripFailingConfigs"
    /\ lastOp.result = Len(registries)
    /\ {Undefined, 0} \subseteq CountersOf(registries[lastOp.recv])
    /\ \E c \in CountersOf(registries[lastOp.recv]) : c > 0
    /\ DOMAIN registries[lastOp.result] # DOMAIN registries[lastOp.recv]

\* C17: whatever Registry method runs, the errorCount of a registryItem, once
\* defined, never decreases and is never set back to zero.
CountersNeverDecrease ==
    [][\A r \in DOMAIN errorCount : \A i \in DOMAIN errorCount[r] :
        errorCount[r][i] # Undefined =>
            \/ errorCount[r][i] = NaN /\ errorCount'[r][i] = NaN
            \/ errorCount[r][i] >= 0 /\ errorCount'[r][i] >= errorCount[r][i]]_vars

-----------------------------------------------------------------------------
(* extendFromRecommended.  config.rules is an object: rulesObjects[i] is   *)
(* the contents of object i, and a config holds a reference to one.        *)

\* the settings configureRules selects for a rule: off, or one of its candidates
SelectedSettings ==
    { Num(0), Num(2), Arr(<<Num(2), Str("always")>>), Arr(<<Num(2), Str("never")>>) }

\* the settings conf/eslint.json may give a rule
RecommendedSettings ==
    { Num(0), Num(1), Num(2), Arr(<<Num(2), Str("always")>>),
      Arr(<<Num(1), Str("always")>>) }

\* recConfig.rules: some of the core rules, each with a setting
RecommendedChoices ==
    UNION { [ids -> RecommendedSettings] : ids \in SUBSET RuleIds }

\* lodash.isequal: deep structural equality
isEqual(a, b) == a = b

\* recRules: the rule ids whose recommended setting is 2 or [2, ...]
recRules(rec) ==
    { ruleId \in DOMAIN rec :
        \/ rec[ruleId] = Num(2)
        \/ rec[ruleId].t = "arr" /\ Len(rec[ruleId].a) >= 1 /\ rec[ruleId].a[1] = Num(2) }

\* every recommended rule deleted, whatever the selected setting is
DeletedRules_allRecommended(rec, rules) == recRules(rec) \cap DOMAIN rules

\* the rule ids that recRules.forEach deletes from newConfig.rules
DeletedRules(rec, rules) ==
    { ruleId \in recRules(rec) :
        ruleId \in DOMAIN rules /\ isEqual(rec[ruleId], rules[ruleId]) }

\* delete obj[key] for every key of keys
DeleteKeys(obj, keys) == [key \in (DOMAIN obj) \ keys |-> obj[key]]

\* newConfig = assign({}, config): a new object with the same property
\* values, so newConfig.rules is the object config.rules is
extendFromRecommended ==
    /\ epc = "call"
    /\ LET copy == [rules |-> configArg.rules, extends |-> configArg.extends]
       IN  /\ rulesObjects' =
                [rulesObjects EXCEPT ![copy.rules] = DeleteKeys(@, DeletedRules(recConfigRules, @))]
           /\ newConfig' = [copy EXCEPT !.extends = "eslint:recommended"]
    /\ epc' = "done"
    /\ UNCHANGED <<recConfigRules, configArg, selected>>
    /\ UNCHANGED <<schemaVars, registryVars, opsVars>>

\* config as configureRules returns it: a setting for every core rule
InitExtend ==
    /\ recConfigRules \in RecommendedChoices
    /\ selected \in [RuleIds -> SelectedSettings]
    /\ rulesObjects = <<selected>>
    /\ configArg = [rules |-> 1, extends |-> Absent]
    /\ newConfig = [rules |-> 0, extends |-> Absent]
    /\ epc = "call"
    /\ SchemaIdle
    /\ RegistryIdle
    /\ OpsIdle

NextExtend == extendFromRecommended

SpecExtend == InitExtend /\ [][NextExtend]_vars

\* the severity of a setting
SeverityOf(setting) == IF setting.t = "arr" THEN setting.a[1].n ELSE setting.n

\* a rule's setting under `extends` with the emitted rules laid over the
\* recommended ones; a rule in neither is off
Overlay(emitted, rec, ruleId) ==
    IF ruleId \in DOMAIN emitted THEN emitted[ruleId]
    ELSE IF ruleId \in DOMAIN rec THEN rec[ruleId]
    ELSE Num(0)

ExtendLeavesArgument ==
    epc = "done" =>
        /\ rulesObjects[configArg.rules] = selected
        /\ configArg.extends = Absent

====
